---- MODULE Spec2Model ----
(***************************************************************************)
(* Miracle-Matcher (src/app/main.py): teams tagged with a region are dealt *)
(* into leagues of fixed sizes by a greedy region-balancing partitioner    *)
(* (divide_into_leagues), each league is then scheduled by a backtracking  *)
(* search over its cross-region pairs (generate_matches_for_league), and   *)
(* main() repeats the whole trial until every league is scheduled.         *)
(*                                                                         *)
(* The three settings of the program (REGION_DEFINITIONS, LEAGUE_SIZES,    *)
(* MATCHES_PER_TEAM) are variables that never change after Init, so that   *)
(* one specification ranges over a bounded family of settings (Spec) and   *)
(* another fixes them to the values of the source (SpecConfigured).        *)
(***************************************************************************)
EXTENDS Integers, Sequences, FiniteSets, TLC

(***************************************************************************)
(* Bounds of the family of settings explored by Spec.                      *)
(***************************************************************************)
MaxRegions == 3
MaxTeams == 4
MaxLeagues == 2
MaxMatches == 2
MaxAttempts == 2

VARIABLES
    REGION_DEFINITIONS,  \* sequence of [region, count], in dict order
    LEAGUE_SIZES,        \* sequence of league sizes
    MATCHES_PER_TEAM,    \* matches per team
    pc,                  \* position of main(): loop|divide|leagues|search|done
    attempt_count,       \* main: attempt_count
    all_teams,           \* main: all_teams
    shuffled_teams,      \* divide_into_leagues: shuffled_teams
    team_idx,            \* divide_into_leagues: position of `for team in`
    leagues,             \* the League objects of the trial (None: <<>>)
    all_leagues_ok,      \* main: all_leagues_ok
    league_idx,          \* main: position of `for league in leagues`
    possible_pairs,      \* generate_matches_for_league: possible_pairs
    stack,               \* call stack of _find_matches_recursive
    ret,                 \* value returned by the last finished call
    out                  \* lines printed since the trial's header line

vars == <<REGION_DEFINITIONS, LEAGUE_SIZES, MATCHES_PER_TEAM, pc,
          attempt_count, all_teams, shuffled_teams, team_idx, leagues,
          all_leagues_ok, league_idx, possible_pairs, stack, ret, out>>

settings == <<REGION_DEFINITIONS, LEAGUE_SIZES, MATCHES_PER_TEAM>>

search_vars == <<possible_pairs, stack, ret>>

divide_vars == <<shuffled_teams, team_idx>>

(***************************************************************************)
(* Data structures.                                                        *)
(***************************************************************************)
Team(id, region, i) == [id |-> id, name |-> <<region, i>>, region |-> region]

League(name) == [name |-> name, teams |-> <<>>, matches |-> <<>>]

None == <<>>

RegionNames == <<"A", "B", "C", "D", "E", "F", "G">>

RECURSIVE SumSeq(_)
SumSeq(s) == IF s = <<>> THEN 0 ELSE Head(s) + SumSeq(Tail(s))

Line(msg, arg) == [msg |-> msg, arg |-> arg]

(***************************************************************************)
(* The settings of the source.                                             *)
(***************************************************************************)
Configured_REGION_DEFINITIONS ==
    << [region |-> "A", count |-> 2], [region |-> "B", count |-> 1],
       [region |-> "C", count |-> 2], [region |-> "D", count |-> 6],
       [region |-> "E", count |-> 1], [region |-> "F", count |-> 1],
       [region |-> "G", count |-> 5] >>

Configured_LEAGUE_SIZES == <<6, 4, 4, 4>>

Configured_MATCHES_PER_TEAM == 3

(***************************************************************************)
(* create_teams: ids count up from 1 across the regions in dict order.     *)
(***************************************************************************)
RECURSIVE create_teams_from(_, _, _)
create_teams_from(defs, r, team_id_counter) ==
    IF r > Len(defs) THEN <<>>
    ELSE [i \in 1..defs[r].count |->
              Team(team_id_counter + i - 1, defs[r].region, i)]
         \o create_teams_from(defs, r + 1, team_id_counter + defs[r].count)

create_teams == create_teams_from(REGION_DEFINITIONS, 1, 1)

(***************************************************************************)
(* The random module: each operator is the set of results a call can give. *)
(***************************************************************************)
Rearrangements(seq) ==
    {[i \in DOMAIN seq |-> seq[p[i]]] : p \in Permutations(DOMAIN seq)}

random_sample(seq) == Rearrangements(seq)

random_shuffle(seq) == Rearrangements(seq)

\* mutant of random_choice: the first element, i.e. ties broken by list order
choose_first(seq) == {seq[1]}

random_choice(seq) == {seq[k] : k \in DOMAIN seq}

(***************************************************************************)
(* The settings of the source under fixed draws.  18 teams have too many   *)
(* orders to enumerate, so SpecConfigured follows the program on a few     *)
(* draw sequences: the team order SeededOrder (a result random.sample can  *)
(* give), a tie of two leagues broken either way and a wider tie towards   *)
(* the first best league in odd trials and the last in even trials, and    *)
(* the candidate list kept or reversed.                                    *)
(***************************************************************************)
SeededOrder == <<6, 7, 8, 9, 14, 15, 16, 17, 1, 4, 2, 5, 12, 13, 10, 11, 18, 3>>

Reversed(seq) == [i \in DOMAIN seq |-> seq[Len(seq) + 1 - i]]

seeded_sample(seq) == {[i \in DOMAIN seq |-> seq[SeededOrder[i]]]}

seeded_choice(seq) ==
    IF Len(seq) <= 2 THEN {seq[k] : k \in DOMAIN seq}
    ELSE {seq[IF attempt_count % 2 = 1 THEN 1 ELSE Len(seq)]}

seeded_shuffle(seq) == {seq, Reversed(seq)}

(***************************************************************************)
(* The source of the draws of a run: "random" is the random module as it   *)
(* is, "seeded" the fixed draws above.                                     *)
(***************************************************************************)
sample(rng, seq) ==
    IF rng = "seeded" THEN seeded_sample(seq) ELSE random_sample(seq)

choice(rng, seq) ==
    IF rng = "seeded" THEN seeded_choice(seq) ELSE random_choice(seq)

shuffle(rng, seq) ==
    IF rng = "seeded" THEN seeded_shuffle(seq) ELSE random_shuffle(seq)

(***************************************************************************)
(* divide_into_leagues.  Leagues are referred to by their position in the  *)
(* list `leagues`.                                                         *)
(***************************************************************************)
region_count(lg, team) ==
    Cardinality({k \in DOMAIN lg.teams : lg.teams[k].region = team.region})

\* mutant of has_room: a full league still counts as available
has_room_inclusive(lg, size) == Len(lg.teams) <= size

has_room(lg, size) == Len(lg.teams) < size

available_leagues(lgs, league_sizes) ==
    SelectSeq([i \in DOMAIN lgs |-> i],
              LAMBDA i : has_room(lgs[i], league_sizes[i]))

\* sorted(available_leagues, key=...): Python's sort is stable, so leagues of
\* equal key keep their order; k runs over the possible keys.
RECURSIVE sorted_from(_, _, _, _)
sorted_from(avail, lgs, team, k) ==
    IF k > Len(all_teams) THEN <<>>
    ELSE SelectSeq(avail, LAMBDA i : region_count(lgs[i], team) = k)
         \o sorted_from(avail, lgs, team, k + 1)

best_leagues(avail, lgs, team) == sorted_from(avail, lgs, team, 0)

best_options(avail, lgs, team) ==
    LET bl == best_leagues(avail, lgs, team)
        min_region_count == region_count(lgs[bl[1]], team)
    IN  SelectSeq(bl, LAMBDA i : region_count(lgs[i], team) = min_region_count)

\* mutant of append_team: the leagues share one teams list
append_team_shared(lgs, chosen_league, team) ==
    [i \in DOMAIN lgs |-> [lgs[i] EXCEPT !.teams = Append(@, team)]]

append_team(lgs, chosen_league, team) ==
    [lgs EXCEPT ![chosen_league].teams = Append(@, team)]

(***************************************************************************)
(* generate_matches_for_league: the candidate pairs, in the order of the   *)
(* two nested loops, each pair sorted by team id.                          *)
(***************************************************************************)
sorted_pair(a, b) == IF a.id <= b.id THEN <<a, b>> ELSE <<b, a>>

\* mutant of eligible: the region test is dropped
eligible_any(a, b) == TRUE

eligible(a, b) == a.region /= b.region

RECURSIVE pairs_from(_, _, _)
pairs_from(teams, i, j) ==
    IF i > Len(teams) THEN <<>>
    ELSE IF j > Len(teams) THEN pairs_from(teams, i + 1, i + 2)
    ELSE (IF eligible(teams[i], teams[j])
          THEN <<sorted_pair(teams[i], teams[j])>> ELSE <<>>)
         \o pairs_from(teams, i, j + 1)

cross_region_pairs(teams) == pairs_from(teams, 1, 2)

initial_match_counts(teams) ==
    [id \in {teams[k].id : k \in DOMAIN teams} |-> 0]

(***************************************************************************)
(* _find_matches_recursive: one frame per active call.  `at` is the place  *)
(* of the call: "enter" (not yet run), "include" (waiting for the call of  *)
(* line 111), "exclude" (waiting for the call of line 115).  pair_idx      *)
(* counts from 0 as in the source.                                         *)
(***************************************************************************)
Frame(matches, match_counts, pair_idx) ==
    [matches |-> matches, match_counts |-> match_counts,
     pair_idx |-> pair_idx, at |-> "enter"]

Top == stack[Len(stack)]

Pop == SubSeq(stack, 1, Len(stack) - 1)

\* mutant of goal_met: any() in place of all()
goal_met_any(match_counts) ==
    \E id \in DOMAIN match_counts : match_counts[id] = MATCHES_PER_TEAM

goal_met(match_counts) ==
    \A id \in DOMAIN match_counts : match_counts[id] = MATCHES_PER_TEAM

exhausted(pair_idx) == pair_idx >= Len(possible_pairs)

can_add(match_counts, team1, team2) ==
    /\ match_counts[team1.id] < MATCHES_PER_TEAM
    /\ match_counts[team2.id] < MATCHES_PER_TEAM

\* mutant of new_matches: team1 is written twice
new_matches_typo(matches, team1, team2) == matches \o << <<team1, team1>> >>

new_matches(matches, team1, team2) == matches \o << <<team1, team2>> >>

\* mutant of new_counts: the second team's count is not incremented
new_counts_first_only(match_counts, team1, team2) ==
    [match_counts EXCEPT ![team1.id] = @ + 1]

new_counts(match_counts, team1, team2) ==
    LET c1 == [match_counts EXCEPT ![team1.id] = @ + 1]
    IN  [c1 EXCEPT ![team2.id] = @ + 1]

next_pair_idx(pair_idx) == pair_idx + 1

new_leagues(league_sizes) == [i \in DOMAIN league_sizes |-> League(i)]

(***************************************************************************)
(* Initial states.                                                         *)
(***************************************************************************)
RegionDefinitions ==
    {[r \in 1..MaxRegions |-> [region |-> RegionNames[r], count |-> c[r]]] :
        c \in {d \in [1..MaxRegions -> 0..MaxTeams] : SumSeq(d) <= MaxTeams}}

LeagueSizes ==
    UNION {{s \in [1..n -> 0..MaxTeams] : SumSeq(s) <= MaxTeams} :
              n \in 1..MaxLeagues}

Idle ==
    /\ pc = "loop"
    /\ attempt_count = 0
    /\ all_teams = <<>>
    /\ shuffled_teams = <<>>
    /\ team_idx = 0
    /\ leagues = None
    /\ all_leagues_ok = FALSE
    /\ league_idx = 0
    /\ possible_pairs = <<>>
    /\ stack = <<>>
    /\ ret = "none"
    /\ out = <<>>

Init ==
    /\ REGION_DEFINITIONS \in RegionDefinitions
    /\ LEAGUE_SIZES \in LeagueSizes
    /\ MATCHES_PER_TEAM \in 0..MaxMatches
    /\ Idle

InitConfigured ==
    /\ REGION_DEFINITIONS = Configured_REGION_DEFINITIONS
    /\ LEAGUE_SIZES = Configured_LEAGUE_SIZES
    /\ MATCHES_PER_TEAM = Configured_MATCHES_PER_TEAM
    /\ Idle

(***************************************************************************)
(* main, lines 129-138, and divide_into_leagues, lines 45-46: a trial      *)
(* starts.  main's own `leagues` is not read again before line 138         *)
(* re-assigns it, so one variable holds the list being built.              *)
(***************************************************************************)
StartTrial(rng) ==
    /\ pc = "loop"
    /\ attempt_count < MaxAttempts
    /\ attempt_count' = attempt_count + 1
    /\ out' = <<Line("attempt", attempt_count + 1), Line("dividing", 0)>>
    /\ all_teams' = create_teams
    /\ leagues' = new_leagues(LEAGUE_SIZES)
    /\ shuffled_teams' \in sample(rng, all_teams')
    /\ team_idx' = 1
    /\ pc' = "divide"
    /\ UNCHANGED <<settings, all_leagues_ok, league_idx, search_vars>>

(***************************************************************************)
(* divide_into_leagues, lines 48-71: one iteration of `for team in`.       *)
(* With no league available it returns None and main prints and goes       *)
(* round its loop (lines 55-58, 139-141).                                  *)
(***************************************************************************)
PlaceTeam(rng) ==
    /\ pc = "divide"
    /\ team_idx <= Len(shuffled_teams)
    /\ LET team == shuffled_teams[team_idx]
           avail == available_leagues(leagues, LEAGUE_SIZES)
       IN  IF avail = <<>>
           THEN /\ out' = out \o <<Line("no_league", 0), Line("divide_failed", 0)>>
                /\ leagues' = None
                /\ shuffled_teams' = <<>>
                /\ team_idx' = 0
                /\ pc' = "loop"
           ELSE /\ \E chosen_league \in choice(rng, best_options(avail, leagues, team)) :
                       leagues' = append_team(leagues, chosen_league, team)
                /\ team_idx' = team_idx + 1
                /\ UNCHANGED <<shuffled_teams, pc, out>>
    /\ UNCHANGED <<settings, attempt_count, all_teams, all_leagues_ok,
                   league_idx, search_vars>>

(***************************************************************************)
(* divide_into_leagues, line 73, and main, lines 138-145: the list is      *)
(* returned and the loop over the leagues starts.                          *)
(***************************************************************************)
DivideReturn ==
    /\ pc = "divide"
    /\ team_idx > Len(shuffled_teams)
    /\ shuffled_teams' = <<>>
    /\ team_idx' = 0
    /\ all_leagues_ok' = TRUE
    /\ league_idx' = 1
    /\ pc' = "leagues"
    /\ UNCHANGED <<settings, attempt_count, all_teams, leagues, search_vars, out>>

(***************************************************************************)
(* main, lines 145-147, and generate_matches_for_league, lines 78-86 and   *)
(* 120-121: the next league's candidates are built and shuffled and the    *)
(* search is called.                                                       *)
(***************************************************************************)
BeginLeague(rng) ==
    /\ pc = "leagues"
    /\ league_idx <= Len(leagues)
    /\ LET league == leagues[league_idx]
       IN  /\ out' = Append(out, Line("making", league.name))
           /\ possible_pairs' \in shuffle(rng, cross_region_pairs(league.teams))
           /\ stack' = <<Frame(<<>>, initial_match_counts(league.teams), 0)>>
    /\ ret' = "none"
    /\ pc' = "search"
    /\ UNCHANGED <<settings, attempt_count, all_teams, divide_vars, leagues,
                   all_leagues_ok, league_idx>>

search_frame == <<settings, pc, attempt_count, all_teams, divide_vars,
                  all_leagues_ok, league_idx, possible_pairs, out>>

(***************************************************************************)
(* _find_matches_recursive, lines 95-97: every count is the target; the    *)
(* list is written into the league and the call returns True.              *)
(***************************************************************************)
GoalReached ==
    /\ pc = "search" /\ stack /= <<>> /\ Top.at = "enter"
    /\ goal_met(Top.match_counts)
    /\ leagues' = [leagues EXCEPT ![league_idx].matches = Top.matches]
    /\ stack' = Pop
    /\ ret' = "True"
    /\ UNCHANGED search_frame

(***************************************************************************)
(* Lines 100-101: no pair left.                                            *)
(***************************************************************************)
OutOfPairs ==
    /\ pc = "search" /\ stack /= <<>> /\ Top.at = "enter"
    /\ ~goal_met(Top.match_counts)
    /\ exhausted(Top.pair_idx)
    /\ stack' = Pop
    /\ ret' = "False"
    /\ UNCHANGED <<search_frame, leagues>>

(***************************************************************************)
(* Lines 104-111: the pair is added and the search is called on the rest.  *)
(***************************************************************************)
IncludePair ==
    /\ pc = "search" /\ stack /= <<>> /\ Top.at = "enter"
    /\ ~goal_met(Top.match_counts)
    /\ ~exhausted(Top.pair_idx)
    /\ LET f == Top
           team1 == possible_pairs[f.pair_idx + 1][1]
           team2 == possible_pairs[f.pair_idx + 1][2]
       IN  /\ can_add(f.match_counts, team1, team2)
           /\ stack' = Append([stack EXCEPT ![Len(stack)].at = "include"],
                              Frame(new_matches(f.matches, team1, team2),
                                    new_counts(f.match_counts, team1, team2),
                                    next_pair_idx(f.pair_idx)))
    /\ ret' = "none"
    /\ UNCHANGED <<search_frame, leagues>>

(***************************************************************************)
(* Line 115: the pair is skipped, either because line 105 refused it or    *)
(* because the call of line 111 returned False.                            *)
(***************************************************************************)
\* mutant of skips_pair: a refused pair is skipped before the goal is tested
skips_pair_before_goal(f) ==
    \/ /\ f.at = "enter"
       /\ ~exhausted(f.pair_idx)
       /\ ~can_add(f.match_counts, possible_pairs[f.pair_idx + 1][1],
                   possible_pairs[f.pair_idx + 1][2])
    \/ /\ f.at = "include"
       /\ ret = "False"

skips_pair(f) ==
    \/ /\ f.at = "enter"
       /\ ~goal_met(f.match_counts)
       /\ ~exhausted(f.pair_idx)
       /\ ~can_add(f.match_counts, possible_pairs[f.pair_idx + 1][1],
                   possible_pairs[f.pair_idx + 1][2])
    \/ /\ f.at = "include"
       /\ ret = "False"

ExcludePair ==
    /\ pc = "search" /\ stack /= <<>>
    /\ skips_pair(Top)
    /\ stack' = Append([stack EXCEPT ![Len(stack)].at = "exclude"],
                       Frame(Top.matches, Top.match_counts,
                             next_pair_idx(Top.pair_idx)))
    /\ ret' = "none"
    /\ UNCHANGED <<search_frame, leagues>>

(***************************************************************************)
(* Lines 111-112 and 115-116: a True is handed up at once.                 *)
(***************************************************************************)
ReturnTrue ==
    /\ pc = "search" /\ stack /= <<>>
    /\ Top.at \in {"include", "exclude"}
    /\ ret = "True"
    /\ stack' = Pop
    /\ UNCHANGED <<search_frame, leagues, ret>>

\* mutant of ReturnFalse: `return _find_matches_recursive(...)` at line 111,
\* so that a failed inclusion is handed up without trying the exclusion
ReturnFalseEarly ==
    /\ pc = "search" /\ stack /= <<>>
    /\ Top.at \in {"include", "exclude"}
    /\ ret = "False"
    /\ stack' = Pop
    /\ UNCHANGED <<search_frame, leagues, ret>>

(***************************************************************************)
(* Line 118: both branches failed.                                         *)
(***************************************************************************)
ReturnFalse ==
    /\ pc = "search" /\ stack /= <<>>
    /\ Top.at = "exclude"
    /\ ret = "False"
    /\ stack' = Pop
    /\ UNCHANGED <<search_frame, leagues, ret>>

\* mutant of LeagueReturn: the `break` of line 150 is missing
LeagueReturnNoBreak ==
    /\ pc = "search" /\ stack = <<>>
    /\ IF ret = "True"
       THEN UNCHANGED <<all_leagues_ok, out>>
       ELSE /\ out' = Append(out, Line("not_found", leagues[league_idx].name))
            /\ all_leagues_ok' = FALSE
    /\ league_idx' = league_idx + 1
    /\ pc' = "leagues"
    /\ possible_pairs' = <<>>
    /\ ret' = "none"
    /\ UNCHANGED <<settings, attempt_count, all_teams, divide_vars, leagues, stack>>

(***************************************************************************)
(* generate_matches_for_league, line 121, and main, lines 147-150 and      *)
(* 171-172: the outermost call has returned.  True: on to the next league. *)
(* False: the loop over the leagues is left and the trial is given up.     *)
(* The locals of the finished call, and the loop position after `break`,   *)
(* are not read again and are reset.                                       *)
(***************************************************************************)
LeagueReturn ==
    /\ pc = "search" /\ stack = <<>>
    /\ IF ret = "True"
       THEN /\ league_idx' = league_idx + 1
            /\ pc' = "leagues"
            /\ UNCHANGED <<all_leagues_ok, out>>
       ELSE /\ out' = out \o <<Line("not_found", leagues[league_idx].name),
                               Line("retry", 0)>>
            /\ all_leagues_ok' = FALSE
            /\ league_idx' = 0
            /\ pc' = "loop"
    /\ possible_pairs' = <<>>
    /\ ret' = "none"
    /\ UNCHANGED <<settings, attempt_count, all_teams, divide_vars, leagues, stack>>

(***************************************************************************)
(* main, lines 153-170: every league was scheduled; the result is printed  *)
(* and the loop is left.                                                   *)
(***************************************************************************)
Accept ==
    /\ pc = "leagues"
    /\ league_idx > Len(leagues)
    /\ all_leagues_ok
    /\ out' = Append(out, Line("found", 0))
    /\ pc' = "done"
    /\ UNCHANGED <<settings, attempt_count, all_teams, divide_vars, leagues,
                   all_leagues_ok, league_idx, search_vars>>

Search ==
    \/ GoalReached
    \/ OutOfPairs
    \/ IncludePair
    \/ ExcludePair
    \/ ReturnTrue
    \/ ReturnFalse

Next ==
    \/ StartTrial("random")
    \/ PlaceTeam("random")
    \/ DivideReturn
    \/ BeginLeague("random")
    \/ Search
    \/ LeagueReturn
    \/ Accept

Spec == Init /\ [][Next]_vars

NextConfigured ==
    \/ StartTrial("seeded")
    \/ PlaceTeam("seeded")
    \/ DivideReturn
    \/ BeginLeague("seeded")
    \/ Search
    \/ LeagueReturn
    \/ Accept

SpecConfigured == InitConfigured /\ [][NextConfigured]_vars

(***************************************************************************)
(* Vocabulary of the properties.                                           *)
(***************************************************************************)
TeamSet(teams) == {teams[k] : k \in DOMAIN teams}

Places(team) ==
    {<<i, k>> \in (DOMAIN leagues) \X (1..Len(all_teams)) :
        k <= Len(leagues[i].teams) /\ leagues[i].teams[k] = team}

Degree(matches, team) ==
    Cardinality({k \in DOMAIN matches :
                    matches[k][1] = team \/ matches[k][2] = team})

Opponents(matches, team) ==
    {matches[k][2] : k \in {n \in DOMAIN matches : matches[n][1] = team}}
    \cup {matches[k][1] : k \in {n \in DOMAIN matches : matches[n][2] = team}}

InTrial == pc \in {"leagues", "search", "done"}

Accepted == pc = "done"

\* generate_matches_for_league has returned True for league i in this trial
Scheduled(i) ==
    /\ InTrial
    /\ \/ i < league_idx
       \/ i = league_idx /\ pc = "search" /\ ret = "True"

\* the outermost call of the search has returned
Returned == pc = "search" /\ stack = <<>>

\* C1: in an accepted configuration whose league sizes sum to the number of
\* teams, every team of the catalog is in exactly one league, exactly once,
\* and league i holds exactly LEAGUE_SIZES[i] teams.
C1_Partition ==
    (Accepted /\ SumSeq(LEAGUE_SIZES) = Len(all_teams)) =>
        /\ DOMAIN leagues = DOMAIN LEAGUE_SIZES
        /\ \A n \in DOMAIN all_teams : Cardinality(Places(all_teams[n])) = 1
        /\ \A i \in DOMAIN leagues : Len(leagues[i].teams) = LEAGUE_SIZES[i]

C1_Witness ==
    /\ Accepted
    /\ SumSeq(LEAGUE_SIZES) = Len(all_teams)
    /\ Len(all_teams) = MaxTeams
    /\ Len(leagues) = 2
    /\ Len(leagues[1].teams) = 2
    /\ Len(leagues[2].teams) = 2

\* C2: once generate_matches_for_league has returned True for a league, each
\* of its teams is in exactly MATCHES_PER_TEAM pairs of league.matches; and
\* in every frame of the search the running count of each team is the number
\* of committed matches that contain it.
C2_ExactCount ==
    /\ \A i \in DOMAIN leagues : Scheduled(i) =>
           \A t \in TeamSet(leagues[i].teams) :
               Degree(leagues[i].matches, t) = MATCHES_PER_TEAM
    /\ pc = "search" =>
           \A n \in DOMAIN stack :
               \A t \in TeamSet(leagues[league_idx].teams) :
                   stack[n].match_counts[t.id] = Degree(stack[n].matches, t)

C2_Witness ==
    /\ Accepted
    /\ MATCHES_PER_TEAM = 2
    /\ \E i \in DOMAIN leagues : Len(leagues[i].matches) >= 3

\* C3: league.matches is always a selection without repetition from the
\* candidates: each match pairs two distinct teams of the league whose
\* regions differ, and no unordered pair is listed twice.
C3_Selection ==
    \A i \in DOMAIN leagues :
        LET ms == leagues[i].matches
        IN  /\ \A k \in DOMAIN ms :
                   /\ ms[k][1] /= ms[k][2]
                   /\ {ms[k][1], ms[k][2]} \subseteq TeamSet(leagues[i].teams)
                   /\ ms[k][1].region /= ms[k][2].region
            /\ \A k, n \in DOMAIN ms :
                   k /= n => {ms[k][1], ms[k][2]} /= {ms[n][1], ms[n][2]}

C3_Witness ==
    /\ Returned
    /\ ret = "True"
    /\ Len(leagues[league_idx].matches) >= 4

\* C4 as stated: for the settings of the source the partition has sizes
\* 6, 4, 4, 4 and the scheduler returns success for each of its leagues, every
\* team with exactly 3 opponents, all of other regions.
C4_EveryLeagueScheduled ==
    /\ InTrial => [i \in DOMAIN leagues |-> Len(leagues[i].teams)]
                      = Configured_LEAGUE_SIZES
    /\ Returned =>
           /\ ret = "True"
           /\ \A t \in TeamSet(leagues[league_idx].teams) :
                  /\ Cardinality(Opponents(leagues[league_idx].matches, t))
                         = Configured_MATCHES_PER_TEAM
                  /\ \A o \in Opponents(leagues[league_idx].matches, t) :
                         o.region /= t.region

\* C4, amended: for the settings of the source the partitioner never fails
\* and always ends with leagues of sizes 6, 4, 4, 4; in every league for
\* which the scheduler returns success (so in every league of an accepted
\* trial) each team has exactly 3 opponents, all of other regions.  The
\* scheduler may return failure for a league of such a partition.
C4_Configured ==
    /\ \A n \in DOMAIN out : out[n].msg \notin {"no_league", "divide_failed"}
    /\ InTrial => [i \in DOMAIN leagues |-> Len(leagues[i].teams)]
                      = Configured_LEAGUE_SIZES
    /\ \A i \in DOMAIN leagues : Scheduled(i) =>
           \A t \in TeamSet(leagues[i].teams) :
               /\ Degree(leagues[i].matches, t) = Configured_MATCHES_PER_TEAM
               /\ Cardinality(Opponents(leagues[i].matches, t))
                      = Configured_MATCHES_PER_TEAM
               /\ \A o \in Opponents(leagues[i].matches, t) :
                      o.region /= t.region

C4_Witness ==
    /\ Accepted
    /\ settings = <<Configured_REGION_DEFINITIONS, Configured_LEAGUE_SIZES,
                    Configured_MATCHES_PER_TEAM>>
    /\ Len(all_teams) = 18
    /\ \A i \in DOMAIN leagues :
           2 * Len(leagues[i].matches)
               = Configured_MATCHES_PER_TEAM * Len(leagues[i].teams)

AllSameRegion(teams) ==
    /\ teams /= <<>>
    /\ \A k \in DOMAIN teams : teams[k].region = teams[1].region

\* C5: for a non-empty league whose teams share one region and a count of at
\* least 1, the search never returns True, returns False, and league.matches
\* stays empty, also after the failure is reported.
C5_NoFabrication ==
    /\ (pc = "search" /\ MATCHES_PER_TEAM >= 1
            /\ AllSameRegion(leagues[league_idx].teams)) =>
           /\ ret /= "True"
           /\ Returned => ret = "False"
           /\ leagues[league_idx].matches = <<>>
    /\ \A n \in DOMAIN out :
           (out[n].msg = "not_found" /\ AllSameRegion(leagues[out[n].arg].teams))
               => leagues[out[n].arg].matches = <<>>

C5_Witness ==
    /\ Returned
    /\ ret = "False"
    /\ MATCHES_PER_TEAM = 1
    /\ Len(leagues[league_idx].teams) = 4
    /\ AllSameRegion(leagues[league_idx].teams)

\* C6: with a count of 0 the search returns True from its first call, at
\* candidate index 0 with no pair consumed, and every league's matches are
\* the empty list; no league is ever reported as failed.
C6_ZeroMatches ==
    MATCHES_PER_TEAM = 0 =>
        /\ \A i \in DOMAIN leagues : leagues[i].matches = <<>>
        /\ \A n \in DOMAIN out : out[n].msg /= "not_found"
        /\ pc = "search" =>
               /\ ret /= "False"
               /\ Len(stack) <= 1
               /\ stack /= <<>> =>
                      /\ Top.at = "enter"
                      /\ Top.pair_idx = 0
                      /\ Top.matches = <<>>
               /\ Returned => ret = "True"

C6_Witness ==
    /\ MATCHES_PER_TEAM = 0
    /\ Returned
    /\ ret = "True"
    /\ Len(possible_pairs) >= 4
    /\ leagues[league_idx].matches = <<>>

RoomIn(i) == Len(leagues[i].teams) < LEAGUE_SIZES[i]

AllFull == \A i \in DOMAIN leagues : Len(leagues[i].teams) = LEAGUE_SIZES[i]

\* divide_into_leagues is about to place a team
AtPlacement == pc = "divide" /\ team_idx <= Len(shuffled_teams)

DivideFailed == \E n \in DOMAIN out : out[n].msg = "divide_failed"

\* the state part of C7
C7_StateInv ==
    /\ \A i \in DOMAIN leagues : Len(leagues[i].teams) <= LEAGUE_SIZES[i]
    /\ DivideFailed => Len(all_teams) > SumSeq(LEAGUE_SIZES)
    /\ InTrial => Len(all_teams) <= SumSeq(LEAGUE_SIZES)
    /\ DivideFailed <=> (pc = "loop" /\ leagues = None /\ attempt_count > 0)

\* the step part of C7
C7_Step ==
    /\ (pc = "divide" /\ pc' = "loop") => (AtPlacement /\ AllFull)
    /\ (AtPlacement /\ AllFull) => (pc' = "loop" /\ DivideFailed')

\* C7: no league ever holds more teams than its size; divide_into_leagues
\* fails when, and only when, a team is to be placed and every league holds
\* exactly its size; and it fails exactly when there are more teams than the
\* league sizes sum to.
C7_DivideFailure == []C7_StateInv /\ [][C7_Step]_vars

C7_Witness ==
    /\ DivideFailed
    /\ Len(LEAGUE_SIZES) = 2
    /\ SumSeq(LEAGUE_SIZES) = 3
    /\ Len(all_teams) = 4

MakingLines == SelectSeq(out, LAMBDA l : l.msg = "making")

PlacedCount == SumSeq([i \in DOMAIN leagues |-> Len(leagues[i].teams)])

\* C8: main leaves its loop only with the partition of this trial complete
\* and every league of it scheduled successfully, in league order; a league
\* reported as failed is the last one scheduled in its trial and the trial is
\* given up at once; and a trial's partition starts from leagues without
\* teams or matches, holding only teams placed in this trial.
C8_Orchestrator ==
    /\ Accepted =>
           /\ all_leagues_ok
           /\ DOMAIN leagues = DOMAIN LEAGUE_SIZES
           /\ PlacedCount = Len(all_teams)
           /\ league_idx = Len(leagues) + 1
           /\ out = <<Line("attempt", attempt_count), Line("dividing", 0)>>
                    \o [i \in DOMAIN leagues |-> Line("making", leagues[i].name)]
                    \o <<Line("found", 0)>>
           /\ \A i \in DOMAIN leagues :
                  \A t \in TeamSet(leagues[i].teams) :
                      Degree(leagues[i].matches, t) = MATCHES_PER_TEAM
    /\ \A n \in DOMAIN MakingLines : MakingLines[n].arg = n
    /\ InTrial => Len(MakingLines) = (IF pc = "search" THEN league_idx
                                      ELSE league_idx - 1)
    /\ \A n \in DOMAIN out : out[n].msg = "not_found" =>
           /\ pc = "loop"
           /\ ~all_leagues_ok
           /\ n = Len(out) - 1
           /\ out[n - 1] = Line("making", out[n].arg)
           /\ out[n + 1] = Line("retry", 0)
    /\ pc = "divide" =>
           /\ \A i \in DOMAIN leagues : leagues[i].matches = <<>>
           /\ PlacedCount = team_idx - 1
           /\ \A k \in 1..(team_idx - 1) :
                  Cardinality(Places(shuffled_teams[k])) = 1

C8_Witness ==
    /\ Accepted
    /\ attempt_count = 2
    /\ MATCHES_PER_TEAM = 1
    /\ SumSeq(LEAGUE_SIZES) = Len(all_teams)
    /\ Len(leagues) = 2
    /\ Len(leagues[1].matches) = 1
    /\ Len(leagues[2].matches) = 1

\* the cross-region pairs of a league, as sets of two teams
CandidateSet(teams) ==
    {p \in SUBSET TeamSet(teams) :
        /\ Cardinality(p) = 2
        /\ \A a, b \in p : a /= b => a.region /= b.region}

\* some set of cross-region pairs gives every team exactly the target count
Feasible(teams) ==
    \E S \in SUBSET CandidateSet(teams) :
        \A t \in TeamSet(teams) :
            Cardinality({p \in S : t \in p}) = MATCHES_PER_TEAM

\* C9: for every league and every order of the candidates, the search
\* returns True if some set of the league's cross-region pairs gives every
\* team exactly MATCHES_PER_TEAM matches, and False only if none does.
C9_Exhaustive ==
    Returned => (ret = "True" <=> Feasible(leagues[league_idx].teams))

\* a success that needed backtracking: the first candidate, which the search
\* includes first, is not part of the result
C9_Witness ==
    /\ Returned
    /\ ret = "True"
    /\ MATCHES_PER_TEAM >= 1
    /\ possible_pairs /= <<>>
    /\ \A k \in DOMAIN leagues[league_idx].matches :
           leagues[league_idx].matches[k] /= possible_pairs[1]

SameRegionIn(i, team) ==
    Cardinality({k \in DOMAIN leagues[i].teams :
                    leagues[i].teams[k].region = team.region})

\* league i is below its size and no league below its size holds fewer teams
\* of the team's region
Minimal(i, team) ==
    /\ RoomIn(i)
    /\ \A j \in DOMAIN leagues :
           RoomIn(j) => SameRegionIn(i, team) <= SameRegionIn(j, team)

PlacedIn(i, team) == leagues' = [leagues EXCEPT ![i].teams = Append(@, team)]

IsPrefix(s, t) == Len(s) <= Len(t) /\ SubSeq(t, 1, Len(s)) = s

\* the state part of C10: each minimal league can be the one chosen
C10_AnyBest ==
    (AtPlacement /\ ~AllFull) =>
        \A i \in DOMAIN leagues :
            Minimal(i, shuffled_teams[team_idx]) =>
                ENABLED (PlaceTeam("random")
                             /\ PlacedIn(i, shuffled_teams[team_idx]))

\* the step part of C10
C10_Step ==
    /\ (pc = "divide" /\ pc' = "divide") =>
           \E i \in DOMAIN leagues :
               /\ Minimal(i, shuffled_teams[team_idx])
               /\ PlacedIn(i, shuffled_teams[team_idx])
    /\ (pc /= "loop" /\ pc' /= "loop") =>
           /\ DOMAIN leagues' = DOMAIN leagues
           /\ \A i \in DOMAIN leagues :
                  IsPrefix(leagues[i].teams, leagues'[i].teams)

\* C10: each placement appends the team to a league that is below its size
\* and has the fewest teams of the team's region among the leagues below
\* their size; every such league can be the one chosen; and within a trial
\* each league's teams list only grows at its end.
C10_Placement == []C10_AnyBest /\ [][C10_Step]_vars

\* the first tie went to league 2, and the second team, of the same region,
\* had to go to league 1
C10_Witness ==
    /\ pc = "divide"
    /\ team_idx = 3
    /\ Len(leagues) = 2
    /\ leagues[2].teams = <<shuffled_teams[1]>>
    /\ leagues[1].teams = <<shuffled_teams[2]>>
    /\ shuffled_teams[1].region = shuffled_teams[2].region
    /\ LEAGUE_SIZES[2] >= 2

====
